---- MODULE Spec2Model ----
(***************************************************************************)
(* Model of fenio/skapa, src/src/model/manifold.ts (first, canonical       *)
(* variant, lines 1-430): the kernel singleton ManifoldModule.get(), the   *)
(* axis layout solvers, createVentHoles(), base() and box().               *)
(*                                                                         *)
(* Lengths are integers in units of 1/MM millimetre.  A quotient the code  *)
(* computes in floating point (leftover / (count-1), span / 2) is kept as  *)
(* an exact fraction [n |-> numerator, d |-> denominator], d > 0.          *)
(***************************************************************************)
EXTENDS Integers, Sequences, FiniteSets, TLC

\* ------------------------------------------------------------------ units

\* "NOTE: all values are in mm": one millimetre is MM model units.
MM == 1000

Max(a, b) == IF a >= b THEN a ELSE b

\* Exact fractions.
R(n, d) == [n |-> n, d |-> d]
RInt(i) == R(i, 1)
RAdd(a, b) == R(a.n * b.d + b.n * a.d, a.d * b.d)
RSub(a, b) == R(a.n * b.d - b.n * a.d, a.d * b.d)
RMulInt(a, k) == R(a.n * k, a.d)
RLe(a, b) == a.n * b.d <= b.n * a.d
RLt(a, b) == a.n * b.d < b.n * a.d
REq(a, b) == a.n * b.d = b.n * a.d

\* ------------------------------------------------------------------ bounds

\* Number of concurrent callers of ManifoldModule.get().
NCallers == 3
\* Largest span (in mm) handed to the axis layout solvers on their own.
MaxSpanMM == 40
\* Number of animation frames the frame loop is followed for.
MaxFrames == 4

\* ------------------------------------------------------------------ state

VARIABLES
  \* ManifoldModule
  wasm,        \* the static field: 0 is undefined, k > 0 the k-th kernel instance
  initCalls,   \* how many times init(...) has been invoked
  setupDone,   \* the instances whose setup() has completed
  gpc,         \* per caller: position inside get()
  ginst,       \* per caller: the instance its own init(...) call resolves to
  gret,        \* per caller: the handle get() returned (0: nothing yet)
  \* axis layout solver, exercised on its own
  sIn,         \* the arguments
  sPc,         \* "ready", "centered" or "vertical"
  sOut,        \* the value returned
  \* one generation pass: box(height, width, depth, radius, wall, bottom)
  p,           \* the arguments of the pass
  pc,          \* "base", "vent", "clips", "done" or "failed"
  res,         \* base()'s `result`, then box()'s `res`
  vent,        \* what createVentHoles returned (<<>> if it has not returned)
  ventOutcome, \* "none", "ok", "createThrows" or "subtractThrows"
  warned,      \* console.warn("Failed to create vent holes:", error) was called
  baseRet,     \* what base() returned (<<>> if it has not returned)
  ci,          \* box()'s loop variable i
  cj,          \* box()'s loop variable j
  clipFailed,  \* clips(...) or a clip union has thrown
  boxRet,      \* what box() returned (<<>> if it has not returned)
  \* main.ts: the frame loop and reloadModel
  now,                \* nowMillis of the latest frame
  frames,             \* how many frames have run
  animCur,            \* animations[dim].current, as the number of changes so far
  reloadModelNeeded,
  modelLoadStarted,   \* Undefined or the timestamp of the frame that started a pass
  nPasses,            \* how many times reloadModel has been called
  passes,             \* per call of reloadModel: state, parameters, start, end
  meshGeometry,       \* the pass whose geometry mesh.geometry is (0: the initial box)
  lastOk              \* the pass that most recently completed successfully (0: none)

getVars == <<wasm, initCalls, setupDone, gpc, ginst, gret>>
solverVars == <<sIn, sPc, sOut>>
passVars == <<p, pc, res, vent, ventOutcome, warned, baseRet, ci, cj, clipFailed, boxRet>>
loopVars == <<now, frames, animCur, reloadModelNeeded, modelLoadStarted, nPasses, passes,
              meshGeometry, lastOk>>
vars == <<wasm, initCalls, setupDone, gpc, ginst, gret, sIn, sPc, sOut,
          p, pc, res, vent, ventOutcome, warned, baseRet, ci, cj, clipFailed, boxRet,
          now, frames, animCur, reloadModelNeeded, modelLoadStarted, nPasses, passes,
          meshGeometry, lastOk>>

\* ------------------------------------------------------ ManifoldModule.get

Callers == 1..NCallers

GetIdle ==
  /\ wasm = 0
  /\ initCalls = 0
  /\ setupDone = {}
  /\ gpc = [c \in Callers |-> "idle"]
  /\ ginst = [c \in Callers |-> 0]
  /\ gret = [c \in Callers |-> 0]

\* `if (this.wasm !== undefined) return this.wasm;`
WasmIsSet(w) == w # 0

\* A caller enters get(): either the early return, or init(...) is invoked
\* (its promise is created synchronously) and the caller suspends on it.
GetCall(c) ==
  /\ gpc[c] = "idle"
  /\ IF WasmIsSet(wasm)
       THEN /\ gret' = [gret EXCEPT ![c] = wasm]
            /\ gpc' = [gpc EXCEPT ![c] = "returned"]
            /\ UNCHANGED <<initCalls, ginst>>
       ELSE /\ initCalls' = initCalls + 1
            /\ ginst' = [ginst EXCEPT ![c] = initCalls + 1]
            /\ gpc' = [gpc EXCEPT ![c] = "awaitInit"]
            /\ UNCHANGED gret
  /\ UNCHANGED <<wasm, setupDone>>

\* `this.wasm = await init(...)` resumes: the field is assigned and
\* this.wasm.setup() is called.  setup() belongs to the kernel package; it
\* either has finished when the call returns or finishes when the awaited
\* value settles.
InitResolve(c) ==
  /\ gpc[c] = "awaitInit"
  /\ wasm' = ginst[c]
  /\ \E sync \in BOOLEAN :
       setupDone' = IF sync THEN setupDone \cup {ginst[c]} ELSE setupDone
  /\ gpc' = [gpc EXCEPT ![c] = "awaitSetup"]
  /\ UNCHANGED <<initCalls, ginst, gret>>

\* `await this.wasm.setup(); return this.wasm;`
SetupResolve(c) ==
  /\ gpc[c] = "awaitSetup"
  /\ setupDone' = setupDone \cup {ginst[c]}
  /\ gret' = [gret EXCEPT ![c] = wasm]
  /\ gpc' = [gpc EXCEPT ![c] = "returned"]
  /\ UNCHANGED <<wasm, initCalls, ginst>>

\* The caller uses the handle and will call get() again later
\* (roundedRectangle, clipRCrossSection and createVentHoles all do).
GetAgain(c) ==
  /\ gpc[c] = "returned"
  /\ gpc' = [gpc EXCEPT ![c] = "idle"]
  /\ UNCHANGED <<wasm, initCalls, setupDone, ginst, gret>>

\* ------------------------------------------------------ axis layout solver

\* `maxAxisCount?: number` left out.
Undefined == -1

FitsNoneNegative(usable, holeSpan) == usable < 0

\* `if (usable < holeSpan) return { positions: [], gapBetween: 0 };`
FitsNone(usable, holeSpan) == usable < holeSpan

\* Math.max(1, Math.floor((usable + gap) / (holeSpan + gap)))
CountAtGap(usable, holeSpan, gap) ==
  Max(1, (usable + gap) \div (holeSpan + gap))

\* The while loop: the state on entry to an iteration test is
\* (chosenCount, trialGap), and chosenGap = trialGap throughout.
RECURSIVE GrowGap(_, _, _, _, _)
GrowGap(usable, holeSpan, maxAxisCount, chosenCount, trialGap) ==
  IF chosenCount > maxAxisCount
    THEN LET t == trialGap + 1 * MM
             count == CountAtGap(usable, holeSpan, t)
         IN  IF t > 30 * MM
               THEN [count |-> count, gap |-> t]
               ELSE GrowGap(usable, holeSpan, maxAxisCount, count, t)
    ELSE [count |-> chosenCount, gap |-> trialGap]

ResolveCountGapNoCap(usable, holeSpan, minGap, maxAxisCount) ==
  [count |-> CountAtGap(usable, holeSpan, minGap), gap |-> minGap]

\* chosenCount and chosenGap after the cap step.
ResolveCountGap(usable, holeSpan, minGap, maxAxisCount) ==
  LET maxHolesWithMinGap == CountAtGap(usable, holeSpan, minGap)
  IN  IF maxAxisCount # Undefined /\ maxHolesWithMinGap > maxAxisCount
        THEN GrowGap(usable, holeSpan, maxAxisCount, maxHolesWithMinGap, minGap)
        ELSE [count |-> maxHolesWithMinGap, gap |-> minGap]

GapBetweenNoLeftover(usable, holeSpan, chosenCount, chosenGap) ==
  IF chosenCount > 1 THEN RInt(chosenGap) ELSE RInt(0)

GapBetweenNoBase(usable, holeSpan, chosenCount, chosenGap) ==
  LET baseUsed == chosenCount * holeSpan + (chosenCount - 1) * chosenGap
      leftover == Max(0, usable - baseUsed)
  IN  IF chosenCount > 1 THEN R(leftover, chosenCount - 1) ELSE RInt(0)

\* baseUsed, leftover and
\* gapBetween = chosenCount > 1 ? chosenGap + leftover / (chosenCount - 1) : 0
GapBetween(usable, holeSpan, chosenCount, chosenGap) ==
  LET baseUsed == chosenCount * holeSpan + (chosenCount - 1) * chosenGap
      leftover == Max(0, usable - baseUsed)
  IN  IF chosenCount > 1
        THEN RAdd(RInt(chosenGap), R(leftover, chosenCount - 1))
        ELSE RInt(0)

CenteredStartNoClearance(totalSpan, holeSpan, edgeClearance) ==
  R(holeSpan - totalSpan, 2)

\* start = -totalSpan / 2 + edgeClearance + holeSpan / 2
CenteredStart(totalSpan, holeSpan, edgeClearance) ==
  R(2 * edgeClearance + holeSpan - totalSpan, 2)

VerticalStartNoHalf(totalSpan, holeSpan, edgeClearance) ==
  RInt(edgeClearance)

\* start = edgeClearance + holeSpan / 2
VerticalStart(totalSpan, holeSpan, edgeClearance) ==
  R(2 * edgeClearance + holeSpan, 2)

\* The part the two solvers share word for word: everything but `start`.
LayOut(usable, holeSpan, minGap, maxAxisCount, start) ==
  IF FitsNone(usable, holeSpan)
    THEN [positions |-> <<>>, gapBetween |-> RInt(0)]
    ELSE LET cg == ResolveCountGap(usable, holeSpan, minGap, maxAxisCount)
             gapBetween == GapBetween(usable, holeSpan, cg.count, cg.gap)
             step == RAdd(RInt(holeSpan), gapBetween)
         IN  [positions |-> [i \in 1..cg.count |->
                               RAdd(start, RMulInt(step, i - 1))],
              gapBetween |-> gapBetween]

computeCenteredAxisPositions(totalSpan, holeSpan, edgeClearance, minGap, maxAxisCount) ==
  LayOut(totalSpan - 2 * edgeClearance, holeSpan, minGap, maxAxisCount,
         CenteredStart(totalSpan, holeSpan, edgeClearance))

computeVerticalPositions(totalSpan, holeSpan, edgeClearance, minGap, maxAxisCount) ==
  LayOut(totalSpan - 2 * edgeClearance, holeSpan, minGap, maxAxisCount,
         VerticalStart(totalSpan, holeSpan, edgeClearance))

\* The solver's arguments, in model units.
SolverSpans == {s * MM : s \in 0..MaxSpanMM}
SolverHoleSpans == {1 * MM, 2500, 7071}
SolverClearances == {0, 1 * MM, 3 * MM}
SolverGaps == {0, 1 * MM, 4 * MM}
SolverCaps == {Undefined, 1, 2, 3}

SolverIdle ==
  /\ sIn = [S |-> 0, F |-> 1 * MM, E |-> 0, G |-> 0, C |-> Undefined]
  /\ sPc = "ready"
  /\ sOut = [positions |-> <<>>, gapBetween |-> RInt(0)]

SolverInit ==
  /\ sIn \in [S : SolverSpans, F : SolverHoleSpans, E : SolverClearances,
              G : SolverGaps, C : SolverCaps]
  /\ sPc = "ready"
  /\ sOut = [positions |-> <<>>, gapBetween |-> RInt(0)]

SolveCentered ==
  /\ sPc = "ready"
  /\ sOut' = computeCenteredAxisPositions(sIn.S, sIn.F, sIn.E, sIn.G, sIn.C)
  /\ sPc' = "centered"
  /\ UNCHANGED sIn

SolveVertical ==
  /\ sPc = "ready"
  /\ sOut' = computeVerticalPositions(sIn.S, sIn.F, sIn.E, sIn.G, sIn.C)
  /\ sPc' = "vertical"
  /\ UNCHANGED sIn

\* ------------------------------------------------------- createVentHoles

EDGE_CLEARANCE == 3 * MM
MIN_GAP == 4 * MM
HOLE_LONG == 7 * MM
HOLE_SHORT == 3 * MM
\* (HOLE_LONG + HOLE_SHORT) / SQRT2 = 7.0710678... mm, to 1/MM mm
HOLE_SPAN_PLANAR == 7071
MAX_AXIS_COUNT_WIDTH == 12
MAX_AXIS_COUNT_DEPTH == 12
MAX_AXIS_COUNT_HEIGHT == 12
BOTTOM_MARGIN == 5 * MM
RIB_WIDTH == 8 * MM

xPositionsFront(width) ==
  computeCenteredAxisPositions(width, HOLE_SPAN_PLANAR, EDGE_CLEARANCE, MIN_GAP,
                               MAX_AXIS_COUNT_WIDTH).positions

yPositionsSide(depth) ==
  computeCenteredAxisPositions(depth, HOLE_SPAN_PLANAR, EDGE_CLEARANCE, MIN_GAP,
                               MAX_AXIS_COUNT_DEPTH).positions

zPositions(height) ==
  computeVerticalPositions(height, HOLE_SPAN_PLANAR, EDGE_CLEARANCE, MIN_GAP,
                           MAX_AXIS_COUNT_HEIGHT).positions

GridZip(A, B) ==
  [k \in 1..(IF Len(A) <= Len(B) THEN Len(A) ELSE Len(B)) |-> <<A[k], B[k]>>]

\* `for (const a of A) { for (const b of B) { push(<<a, b>>) } }`
Grid(A, B) ==
  [k \in 1..(Len(A) * Len(B)) |->
     <<A[((k - 1) \div Len(B)) + 1], B[((k - 1) % Len(B)) + 1]>>]

\* leftPrism.translate(-width / 2 - 1, y, z)
LeftTranslateX(width) == R(0 - width - 2 * MM, 2)
\* rightPrism.translate(width / 2 + 1, y, z)
RightTranslateX(width) == R(width + 2 * MM, 2)
FrontTranslateYBack(depth) == R(0 - depth - 2 * MM, 2)
\* frontPrism.translate(x, depth / 2 + 1, z)
FrontTranslateY(depth) == R(depth + 2 * MM, 2)

SideAxisOfWidth(width, depth) == xPositionsFront(width)
\* the in-plane horizontal centres of the left and right faces
SideAxis(width, depth) == yPositionsSide(depth)

leftHoles(height, width, depth) ==
  LET g == Grid(SideAxis(width, depth), zPositions(height))
  IN  [k \in 1..Len(g) |->
         [prism |-> "left", at |-> <<LeftTranslateX(width), g[k][1], g[k][2]>>]]

rightHoles(height, width, depth) ==
  LET g == Grid(SideAxis(width, depth), zPositions(height))
  IN  [k \in 1..Len(g) |->
         [prism |-> "right", at |-> <<RightTranslateX(width), g[k][1], g[k][2]>>]]

frontHoles(height, width, depth) ==
  LET g == Grid(xPositionsFront(width), zPositions(height))
  IN  [k \in 1..Len(g) |->
         [prism |-> "front", at |-> <<g[k][1], FrontTranslateY(depth), g[k][2]>>]]

bottomUnionInnerRadius(width, depth, wall, bottom, radius) ==
  LET innerRadiusForBottom == Max(0, radius - wall)
      holeWidth == Max(0, width - 2 * (wall + BOTTOM_MARGIN))
      holeDepth == Max(0, depth - 2 * (wall + BOTTOM_MARGIN))
  IN  IF holeWidth > 0 /\ holeDepth > 0
        THEN << [size |-> <<holeWidth, holeDepth>>,
                 radius |-> innerRadiusForBottom,
                 height |-> bottom + 800,
                 rib |-> [size |-> <<RIB_WIDTH, holeDepth>>,
                          height |-> bottom + 800]] >>
        ELSE <<>>

\* bottomUnion: <<>> is undefined, otherwise the cutout minus the rib.
bottomUnion(width, depth, wall, bottom, radius) ==
  LET innerRadiusForBottom == Max(0, radius - wall)
      holeWidth == Max(0, width - 2 * (wall + BOTTOM_MARGIN))
      holeDepth == Max(0, depth - 2 * (wall + BOTTOM_MARGIN))
  IN  IF holeWidth > 0 /\ holeDepth > 0
        THEN << [size |-> <<holeWidth, holeDepth>>,
                 radius |-> Max(0, innerRadiusForBottom - BOTTOM_MARGIN),
                 height |-> bottom + 800,
                 rib |-> [size |-> <<RIB_WIDTH, holeDepth>>,
                          height |-> bottom + 800]] >>
        ELSE <<>>

\* fullBottomHole.subtract(ribPrism): the cutout spans x in
\* [-holeWidth/2, holeWidth/2], the rib x in [-RIB_WIDTH/2, RIB_WIDTH/2], both
\* over the same y and z extent, so nothing is left of a cutout that is not
\* wider than the rib.
BottomOpeningEmpty(b) == b.size[1] <= b.rib.size[1]

\* unionAll(parts) !== undefined
unionAllDefined(parts) == Len(parts) # 0

\* The per-face unions that survive `.filter(m => m !== undefined)`, in order.
Unions(left, right, front, bot) ==
  (IF unionAllDefined(left) THEN <<"left">> ELSE <<>>) \o
  (IF unionAllDefined(right) THEN <<"right">> ELSE <<>>) \o
  (IF unionAllDefined(front) THEN <<"front">> ELSE <<>>) \o
  (IF bot # <<>> THEN <<"bottom">> ELSE <<>>)

createVentHoles(height, width, depth, wall, bottom, radius) ==
  LET left == leftHoles(height, width, depth)
      right == rightHoles(height, width, depth)
      front == frontHoles(height, width, depth)
      bot == bottomUnion(width, depth, wall, bottom, radius)
      unions == Unions(left, right, front, bot)
  IN  [left |-> left, right |-> right, front |-> front, bottom |-> bot,
       unions |-> unions,
       \* bottomPrism.translate(0, 0, -99999)
       placeholder |-> IF Len(unions) = 0
                         THEN << [prism |-> "bottom",
                                  at |-> <<RInt(0), RInt(0), RInt(0 - 99999 * MM)>>] >>
                         ELSE <<>>]

WallPrismLengthShort(wall) == wall + 2 * MM

\* wallPrism = hole2D.extrude(wall + 3): the prism's length along its axis.
WallPrismLength(wall) == wall + 3 * MM

\* The coordinate (1 = x, 2 = y) along which a rotated wall prism lies:
\* rotate(0, 90, 0) and rotate(0, -90, 0) turn the extrusion axis z onto x,
\* rotate(90, 0, 0) turns it onto y.
PrismAxis(prism) == IF prism = "front" THEN 2 ELSE 1

\* The sense in which the prism leaves the point it is translated to:
\* +x for leftPrism, -x for rightPrism, -y for frontPrism.
PrismSense(prism) == IF prism = "left" THEN 1 ELSE 0 - 1

\* Lowest y a prism reaches, relative to the point it is translated to: the
\* side prisms span the tilted hole's planar span across y, the front prism is
\* extruded by wall + 3 towards -y.
PrismYMin(prism, wall) ==
  IF prism = "front" THEN RInt(0 - (wall + 3 * MM)) ELSE R(0 - HOLE_SPAN_PLANAR, 2)

\* ---------------------------------------------------------------- base, box

CLIP_HEIGHT == 12 * MM

HollowShellNoTranslate(height, width, depth, radius, wall, bottom) ==
  [outer |-> [size |-> <<width, depth>>, radius |-> radius,
              z0 |-> 0, z1 |-> height],
   innerNeg |-> [size |-> <<width - 2 * wall, depth - 2 * wall>>,
                 radius |-> Max(0, radius - wall),
                 z0 |-> 0, z1 |-> height - bottom]]

\* outer.subtract(innerNeg)
HollowShell(height, width, depth, radius, wall, bottom) ==
  [outer |-> [size |-> <<width, depth>>, radius |-> radius,
              z0 |-> 0, z1 |-> height],
   innerNeg |-> [size |-> <<width - 2 * wall, depth - 2 * wall>>,
                 radius |-> Max(0, radius - wall),
                 z0 |-> bottom, z1 |-> bottom + (height - bottom)]]

TryVentPartial(result, outcome, holeUnion) ==
  IF outcome = "createThrows" THEN result
  ELSE [result EXCEPT !.vents = <<holeUnion>>]

\* try { holeUnion = await createVentHoles(...);
\*       result = result.subtract(holeUnion); } catch (error) { warn }
TryVent(result, outcome, holeUnion) ==
  IF outcome = "ok" THEN [result EXCEPT !.vents = <<holeUnion>>] ELSE result

padding == 5 * MM
gw == 40 * MM
gh == 40 * MM

ClipColumnsNoPlusOne(width, radius) == (width - 2 * radius - 2 * padding) \div gw
\* N = Math.floor(W / gw + 1)
ClipColumns(width, radius) == ((width - 2 * radius - 2 * padding) \div gw) + 1
\* NV = Math.floor(H / gh + 1)
ClipLevels(height) == ((height - CLIP_HEIGHT) \div gh) + 1
ClipDxNoHalf(width, radius) == (0 - (ClipColumns(width, radius) - 1)) * gw

\* dx = ((-1 * M) / 2) * gw, with M = N - 1
ClipDx(width, radius) == ((0 - (ClipColumns(width, radius) - 1)) * gw) \div 2

ClipPairAtNoChamfer(i, j, width, depth, radius) ==
  LET at == <<i * gw + ClipDx(width, radius), R(0 - depth, 2), j * gh>>
  IN  << [clip |-> "clipR", chamfer |-> FALSE, at |-> at],
         [clip |-> "clipL", chamfer |-> FALSE, at |-> at] >>

\* The two solids of clips(chamfer), each translated to
\* (i * gw + dx, -depth / 2, j * gh).
ClipPairAt(i, j, width, depth, radius) ==
  LET at == <<i * gw + ClipDx(width, radius), R(0 - depth, 2), j * gh>>
  IN  << [clip |-> "clipR", chamfer |-> j > 0, at |-> at],
         [clip |-> "clipL", chamfer |-> j > 0, at |-> at] >>

OnClipErrorCaught(i, j, height) ==
  [pc |-> "clips",
   ci |-> IF j + 1 < ClipLevels(height) THEN i ELSE i + 1,
   cj |-> IF j + 1 < ClipLevels(height) THEN j + 1 ELSE 0]

\* An exception thrown inside the loop body leaves box().
OnClipError(i, j, height) == [pc |-> "failed", ci |-> i, cj |-> j]

HeightsMM == {12, 20, 52, 100}
WidthsMM == {20, 80, 256}
DepthsMM == {12, 20, 60}
RadiiMM == {0, 6, 10}
WallsMM == {2, 4}
BottomsMM == {3}

PassParams ==
  {[height |-> h * MM, width |-> w * MM, depth |-> d * MM,
    radius |-> r * MM, wall |-> wa * MM, bottom |-> b * MM] :
      h \in HeightsMM, w \in WidthsMM, d \in DepthsMM,
      r \in RadiiMM, wa \in WallsMM, b \in BottomsMM}

PassStart ==
  /\ pc = "base"
  /\ res = [shell |-> <<>>, vents |-> <<>>, clips |-> <<>>]
  /\ vent = <<>>
  /\ ventOutcome = "none"
  /\ warned = FALSE
  /\ baseRet = <<>>
  /\ ci = 0
  /\ cj = 0
  /\ clipFailed = FALSE
  /\ boxRet = <<>>

PassIdle ==
  /\ p = [height |-> 52 * MM, width |-> 80 * MM, depth |-> 60 * MM,
          radius |-> 6 * MM, wall |-> 2 * MM, bottom |-> 3 * MM]
  /\ PassStart

PassInit ==
  /\ p \in PassParams
  /\ PassStart

\* base(): `let result = outer.subtract(innerNeg);`
BaseShell ==
  /\ pc = "base"
  /\ res' = [res EXCEPT !.shell = <<HollowShell(p.height, p.width, p.depth,
                                               p.radius, p.wall, p.bottom)>>]
  /\ pc' = "vent"
  /\ UNCHANGED <<p, vent, ventOutcome, warned, baseRet, ci, cj, clipFailed, boxRet>>

\* base(): roundedRectangle, extrude or subtract throws before the try block.
ShellThrows ==
  /\ pc = "base"
  /\ pc' = "failed"
  /\ UNCHANGED <<p, res, vent, ventOutcome, warned, baseRet, ci, cj, clipFailed, boxRet>>

\* base(): the try block, the catch and `return result`.
VentStep ==
  /\ pc = "vent"
  /\ \E outcome \in {"ok", "createThrows", "subtractThrows"} :
       LET holeUnion == createVentHoles(p.height, p.width, p.depth,
                                        p.wall, p.bottom, p.radius)
       IN  /\ ventOutcome' = outcome
           /\ vent' = IF outcome = "createThrows" THEN <<>> ELSE <<holeUnion>>
           /\ res' = TryVent(res, outcome, holeUnion)
           /\ warned' = (outcome # "ok")
  /\ baseRet' = <<res'>>
  /\ pc' = "clips"
  /\ UNCHANGED <<p, ci, cj, clipFailed, boxRet>>

\* box(): one execution of the loop body.
ClipPair ==
  /\ pc = "clips"
  /\ ci < ClipColumns(p.width, p.radius)
  /\ cj < ClipLevels(p.height)
  /\ res' = [res EXCEPT !.clips = @ \o ClipPairAt(ci, cj, p.width, p.depth, p.radius)]
  /\ IF cj + 1 < ClipLevels(p.height)
       THEN cj' = cj + 1 /\ ci' = ci
       ELSE cj' = 0 /\ ci' = ci + 1
  /\ UNCHANGED <<p, pc, vent, ventOutcome, warned, baseRet, clipFailed, boxRet>>

\* box(): clips(chamfer) or one of the two res.add(...) throws.
ClipThrows ==
  /\ pc = "clips"
  /\ ci < ClipColumns(p.width, p.radius)
  /\ cj < ClipLevels(p.height)
  /\ clipFailed' = TRUE
  /\ pc' = OnClipError(ci, cj, p.height).pc
  /\ ci' = OnClipError(ci, cj, p.height).ci
  /\ cj' = OnClipError(ci, cj, p.height).cj
  /\ UNCHANGED <<p, res, vent, ventOutcome, warned, baseRet, boxRet>>

\* box(): the loops are over, `return res`.
BoxReturn ==
  /\ pc = "clips"
  /\ (ci >= ClipColumns(p.width, p.radius) \/ cj >= ClipLevels(p.height))
  /\ boxRet' = <<res>>
  /\ pc' = "done"
  /\ UNCHANGED <<p, res, vent, ventOutcome, warned, baseRet, ci, cj, clipFailed>>

\* ------------------------------------------------- main.ts: loop, reloadModel

MIN_HEIGHT == 20 * MM
MAX_HEIGHT == 256 * MM
MIN_WIDTH == 20 * MM
MAX_WIDTH == 256 * MM
MIN_DEPTH == 20 * MM
MAX_DEPTH == 256 * MM

\* The values a dimension takes between its minimum and its maximum, every
\* quarter of a millimetre.
DimensionStep == 250
InterfaceSpans ==
  {MIN_WIDTH + k * DimensionStep : k \in 0..((MAX_WIDTH - MIN_WIDTH) \div DimensionStep)}

\* createVentHoles' three solver calls, for a dimension within the interface
\* bounds.
ShippedInit ==
  /\ sIn \in [S : InterfaceSpans, F : {HOLE_SPAN_PLANAR}, E : {EDGE_CLEARANCE},
              G : {MIN_GAP},
              C : {MAX_AXIS_COUNT_WIDTH, MAX_AXIS_COUNT_DEPTH, MAX_AXIS_COUNT_HEIGHT}]
  /\ sPc = "ready"
  /\ sOut = [positions |-> <<>>, gapBetween |-> RInt(0)]

\* Milliseconds between two animation frames.
FrameSteps == {40, 120}

PassIds == 1..MaxFrames

LoopInit ==
  /\ now = 0
  /\ frames = 0
  /\ animCur = 0
  /\ reloadModelNeeded = TRUE
  /\ modelLoadStarted = Undefined
  /\ nPasses = 0
  /\ passes = [i \in PassIds |-> [state |-> "none", ver |-> 0, started |-> 0,
                                  startFrame |-> 0, endFrame |-> 0]]
  /\ meshGeometry = 0
  /\ lastOk = 0

ReloadModelNowNoTimeout(needed, started, nowMillis) ==
  needed /\ started = Undefined

\* reloadModelNow = reloadModelNeeded &&
\*   (modelLoadStarted === undefined || nowMillis - modelLoadStarted > 100)
ReloadModelNow(needed, started, nowMillis) ==
  needed /\ (started = Undefined \/ nowMillis - started > 100)

\* loop(nowMillis): one frame, dt after the previous one; `updated` is
\* dimensionsUpdated, whether some animated dimension changed in this frame.
Frame(dt, updated) ==
  /\ frames < MaxFrames
  /\ now' = now + dt
  /\ frames' = frames + 1
  /\ animCur' = IF updated THEN animCur + 1 ELSE animCur
  /\ LET needed == reloadModelNeeded \/ updated
     IN  IF ReloadModelNow(needed, modelLoadStarted, now')
           THEN /\ modelLoadStarted' = now'
                /\ reloadModelNeeded' = FALSE
                /\ nPasses' = nPasses + 1
                /\ passes' = [passes EXCEPT ![nPasses + 1] =
                                [state |-> "flight", ver |-> animCur',
                                 started |-> now', startFrame |-> frames',
                                 endFrame |-> 0]]
           ELSE /\ reloadModelNeeded' = needed
                /\ UNCHANGED <<modelLoadStarted, nPasses, passes>>
  /\ UNCHANGED <<meshGeometry, lastOk>>

\* reloadModel: box(...) resolved, `mesh.geometry = geometry`, and then the
\* loop's `.then(() => { modelLoadStarted = undefined; ... })`.
PassSucceeds(id) ==
  /\ passes[id].state = "flight"
  /\ passes' = [passes EXCEPT ![id].state = "ok", ![id].endFrame = frames]
  /\ meshGeometry' = id
  /\ lastOk' = id
  /\ modelLoadStarted' = Undefined
  /\ UNCHANGED <<now, frames, animCur, reloadModelNeeded, nPasses>>

\* reloadModel: box(...) or mesh2geometry threw; the promise is rejected and
\* the `.then` callback does not run.
PassFails(id) ==
  /\ passes[id].state = "flight"
  /\ passes' = [passes EXCEPT ![id].state = "failed", ![id].endFrame = frames]
  /\ UNCHANGED <<now, frames, animCur, reloadModelNeeded, modelLoadStarted, nPasses,
                 meshGeometry, lastOk>>

\* ------------------------------------------------------------------ claims

\* C1: however many callers invoke get() before the first initialization has
\* finished, init(...) is invoked exactly once over the whole run, and every
\* caller is handed the same kernel instance (the first one).
C1_InitOnce ==
  /\ initCalls <= 1
  /\ \A c \in Callers : gret[c] \in {0, 1}

\* C2: for S - 2E >= F the centered solver returns at least one position and
\* every returned position lies within [-S/2 + E, S/2 - E], with or without
\* a cap.
C2_CenteredWithinSpan ==
  (sPc = "centered" /\ sIn.S - 2 * sIn.E >= sIn.F) =>
    /\ Len(sOut.positions) >= 1
    /\ \A i \in 1..Len(sOut.positions) :
         /\ RLe(R(2 * sIn.E - sIn.S, 2), sOut.positions[i])
         /\ RLe(sOut.positions[i], R(sIn.S - 2 * sIn.E, 2))

\* The centered solver has run on a span that admits several holes, under a
\* cap that forced the gap to grow.
C2_Witness ==
  /\ sPc = "centered"
  /\ sIn.C # Undefined
  /\ CountAtGap(sIn.S - 2 * sIn.E, sIn.F, sIn.G) > sIn.C
  /\ Len(sOut.positions) >= 2

\* C3: whenever either solver returns two or more positions, consecutive
\* positions differ by at least F + G.
C3_SpacingAtLeastFPlusG ==
  (sPc \in {"centered", "vertical"} /\ Len(sOut.positions) >= 2) =>
    \A i \in 1..(Len(sOut.positions) - 1) :
      RLe(RInt(sIn.F + sIn.G),
          RSub(sOut.positions[i + 1], sOut.positions[i]))

\* A solver returned several positions after the gap was enlarged to meet the
\* cap and leftover slack was redistributed (the final gap is not a whole
\* number of millimetres above the minimum gap).
C3_Witness ==
  /\ sPc \in {"centered", "vertical"}
  /\ sIn.C # Undefined
  /\ CountAtGap(sIn.S - 2 * sIn.E, sIn.F, sIn.G) > sIn.C
  /\ Len(sOut.positions) >= 2
  /\ RLt(RInt(sIn.G + 1 * MM), sOut.gapBetween)
  /\ sOut.gapBetween.n % (sOut.gapBetween.d * MM) # 0

\* C4: if S - 2E < F, both solvers return zero positions, whatever the cap.
C4_TooSmallGivesNone ==
  (sPc \in {"centered", "vertical"} /\ sIn.S - 2 * sIn.E < sIn.F) =>
    Len(sOut.positions) = 0

\* A solver was run, with a cap, on a positive usable span smaller than one
\* footprint.
C4_Witness ==
  /\ sPc \in {"centered", "vertical"}
  /\ sIn.C # Undefined
  /\ sIn.S - 2 * sIn.E > 0
  /\ sIn.S - 2 * sIn.E < sIn.F
  /\ Len(sOut.positions) = 0

\* C5: with a maximum-count cap C, neither solver returns more than C
\* positions.
C5_NeverMoreThanCap ==
  (sPc \in {"centered", "vertical"} /\ sIn.C # Undefined) =>
    Len(sOut.positions) <= sIn.C

\* The solids createVentHoles built, whichever face they belong to.
VentSideSolids(v) ==
  {v.left[k] : k \in 1..Len(v.left)} \cup {v.right[k] : k \in 1..Len(v.right)}
    \cup {v.front[k] : k \in 1..Len(v.front)}

\* C6: no hole solid is generated for the back face: every solid that
\* createVentHoles builds (side prisms, bottom cutout, placeholder) stays
\* strictly in front of the outer back surface y = -depth/2, and the face
\* unions are those of the left, right, front and bottom faces only.
C6_BackFaceNeverPerforated ==
  (vent # <<>>) =>
    LET v == vent[1]
        back == R(0 - p.depth, 2)
    IN  /\ \A h \in VentSideSolids(v) :
             RLt(back, RAdd(h.at[2], PrismYMin(h.prism, p.wall)))
        /\ \A k \in 1..Len(v.bottom) : RLt(back, R(0 - v.bottom[k].size[2], 2))
        /\ \A k \in 1..Len(v.placeholder) :
             RLt(back, RAdd(v.placeholder[k].at[2], R(0 - HOLE_SPAN_PLANAR, 2)))
        /\ \A k \in 1..Len(v.unions) :
             v.unions[k] \in {"left", "right", "front", "bottom"}

\* createVentHoles has returned holes on the left, right and front faces and
\* a bottom cutout.
C6_Witness ==
  /\ vent # <<>>
  /\ Len(vent[1].left) > 0
  /\ Len(vent[1].right) > 0
  /\ Len(vent[1].front) > 0
  /\ Len(vent[1].bottom) > 0

\* C7: if createVentHoles or the subtraction of its result throws, base()
\* does not fail: it warns and returns exactly the hollow shell built before
\* the vent step.
C7_VentFailureKeepsShell ==
  (ventOutcome \in {"createThrows", "subtractThrows"}) =>
    /\ warned
    /\ baseRet = << [shell |-> <<HollowShell(p.height, p.width, p.depth,
                                             p.radius, p.wall, p.bottom)>>,
                     vents |-> <<>>, clips |-> <<>>] >>

\* The subtraction of a non-trivial hole union has thrown and base() has
\* returned.
C7_Witness ==
  /\ ventOutcome = "subtractThrows"
  /\ vent # <<>>
  /\ Len(vent[1].unions) > 0
  /\ baseRet # <<>>

\* The clips of the whole grid, in the order the loops place them.
RECURSIVE ClipGrid(_, _, _, _, _)
ClipGrid(k, n, nv, prm, acc) ==
  IF k >= n * nv THEN acc
  ELSE ClipGrid(k + 1, n, nv, prm,
                acc \o ClipPairAt(k \div nv, k % nv, prm.width, prm.depth, prm.radius))

\* C8: a failure during clip placement is not caught: it leaves box() without
\* a returned solid, and a solid box() returns carries every clip of the grid.
C8_ClipFailureIsFatal ==
  /\ clipFailed => (pc = "failed" /\ boxRet = <<>>)
  /\ (boxRet # <<>>) =>
       boxRet[1].clips =
         ClipGrid(0, Max(0, ClipColumns(p.width, p.radius)),
                  Max(0, ClipLevels(p.height)), p, <<>>)

\* A clip failed after some clips had already been placed.
C8_Witness ==
  /\ clipFailed
  /\ Len(res.clips) >= 2
  /\ pc = "failed"

\* The x offsets of the clips of the returned box.
ClipXs == {boxRet[1].clips[k].at[1] : k \in 1..Len(boxRet[1].clips)}

\* C9: the returned box has floor((width - 2*cornerRadius - 10)/40) + 1 clip
\* columns, 40 mm apart and symmetric about 0; 2 columns for width 80 and
\* cornerRadius 6.
C9_ClipColumns ==
  (boxRet # <<>>) =>
    /\ Cardinality(ClipXs) = ((p.width - 2 * p.radius - 10 * MM) \div (40 * MM)) + 1
    /\ \A x \in ClipXs : (0 - x) \in ClipXs
    /\ \A x \in ClipXs :
         (x + 40 * MM) \in ClipXs \/ \A y \in ClipXs : y <= x
    /\ (p.width = 80 * MM /\ p.radius = 6 * MM) => Cardinality(ClipXs) = 2

\* box(80 wide, radius 6) has returned with its clips.
C9_Witness ==
  /\ boxRet # <<>>
  /\ p.width = 80 * MM
  /\ p.radius = 6 * MM
  /\ Cardinality(ClipXs) = 2

\* C10 as stated: with width 20 and cornerRadius 6 the left and right faces
\* get no holes, no side-face solid is built, and only front-face holes are
\* produced.
C10_NoSideHolesAtMinWidth ==
  (vent # <<>> /\ p.width = 20 * MM /\ p.radius = 6 * MM) =>
    /\ vent[1].left = <<>>
    /\ vent[1].right = <<>>
    /\ \A k \in 1..Len(vent[1].unions) : vent[1].unions[k] = "front"

\* C10 amended: with width 20 and cornerRadius 6 the front face gets a single
\* column of holes (none if height - 2E < F); the left and right faces get
\* no holes, and no side-face solid, exactly when depth - 2E < F or
\* height - 2E < F.
C10_SideHolesFollowDepth ==
  (vent # <<>> /\ p.width = 20 * MM /\ p.radius = 6 * MM) =>
    LET v == vent[1]
        sideEmpty == \/ p.depth - 2 * EDGE_CLEARANCE < HOLE_SPAN_PLANAR
                     \/ p.height - 2 * EDGE_CLEARANCE < HOLE_SPAN_PLANAR
        names == {v.unions[k] : k \in 1..Len(v.unions)}
    IN  /\ (v.left = <<>>) <=> sideEmpty
        /\ (v.right = <<>>) <=> sideEmpty
        /\ ("left" \in names) <=> ~sideEmpty
        /\ ("right" \in names) <=> ~sideEmpty
        /\ (v.front = <<>>) <=>
             (p.height - 2 * EDGE_CLEARANCE < HOLE_SPAN_PLANAR)
        /\ \A a \in 1..Len(v.front) : \A b \in 1..Len(v.front) :
             REq(v.front[a].at[1], v.front[b].at[1])

\* A 20 mm wide box too shallow for side holes: the front face has holes, the
\* side faces have none.
C10_Witness ==
  /\ vent # <<>>
  /\ p.width = 20 * MM
  /\ p.radius = 6 * MM
  /\ vent[1].left = <<>>
  /\ vent[1].right = <<>>
  /\ Len(vent[1].front) > 0

\* C11: when the resolved count is 1, the single hole is centered in the span
\* (position 0 for the centered solver, the middle of the span for the
\* vertical solver) and no gap redistribution is applied.
C11_SingleHoleCentered ==
  (sPc \in {"centered", "vertical"} /\ Len(sOut.positions) = 1) =>
    /\ REq(sOut.gapBetween, RInt(0))
    /\ (sPc = "centered") => REq(sOut.positions[1], RInt(0))
    /\ (sPc = "vertical") => REq(sOut.positions[1], R(sIn.S, 2))

\* C12: when the centered solver resolves a count of at least 2, all gaps are
\* equal and the holes cover the full usable span: the first hole's outer
\* edge is at -S/2 + E, the last hole's outer edge is at S/2 - E, and the
\* positions are symmetric about 0.
C12_HolesCoverUsableSpan ==
  (sPc = "centered" /\ Len(sOut.positions) >= 2) =>
    LET n == Len(sOut.positions)
        pos == sOut.positions
    IN  /\ REq(RSub(pos[1], R(sIn.F, 2)), R(2 * sIn.E - sIn.S, 2))
        /\ REq(RAdd(pos[n], R(sIn.F, 2)), R(sIn.S - 2 * sIn.E, 2))
        /\ \A i \in 1..(n - 1) :
             REq(RSub(pos[i + 1], pos[i]), RAdd(RInt(sIn.F), sOut.gapBetween))
        /\ \A i \in 1..n : REq(pos[i], RSub(RInt(0), pos[n + 1 - i]))

\* The centered solver returned three or more holes with slack left to
\* redistribute.
C12_Witness ==
  /\ sPc = "centered"
  /\ Len(sOut.positions) >= 3
  /\ RLt(RInt(sIn.G), sOut.gapBetween)

\* C19: the gap-growth loop terminates and the gap it resolves never exceeds
\* the 30 mm safety ceiling.
C19_GapWithinCeiling ==
  (sPc \in {"centered", "vertical"} /\ sIn.C # Undefined
     /\ ~FitsNone(sIn.S - 2 * sIn.E, sIn.F)) =>
    ResolveCountGap(sIn.S - 2 * sIn.E, sIn.F, sIn.G, sIn.C).gap <= 30 * MM

\* The faces for which createVentHoles built a solid.
VentFacesBuilt(v) ==
  {f \in {"left", "right", "front", "bottom"} :
     \/ f = "left" /\ v.left # <<>>
     \/ f = "right" /\ v.right # <<>>
     \/ f = "front" /\ v.front # <<>>
     \/ f = "bottom" /\ v.bottom # <<>>}

\* C13: when no face produced a hole solid, createVentHoles returns a
\* placeholder prism translated to z = -99999, entirely below the box; in
\* every other case it returns the union of exactly the per-face solids that
\* were produced; the operand it returns is never an empty solid.
C13_PlaceholderOrExactUnion ==
  (vent # <<>>) =>
    LET v == vent[1]
    IN  /\ {v.unions[k] : k \in 1..Len(v.unions)} = VentFacesBuilt(v)
        /\ Len(v.unions) = Cardinality(VentFacesBuilt(v))
        /\ (VentFacesBuilt(v) = {}) <=> (v.placeholder # <<>>)
        /\ Len(v.unions) + Len(v.placeholder) >= 1
        /\ ~ (v.unions = <<"bottom">> /\ BottomOpeningEmpty(v.bottom[1]))
        /\ \A k \in 1..Len(v.placeholder) :
             /\ REq(v.placeholder[k].at[3], RInt(0 - 99999 * MM))
             /\ RLt(RAdd(v.placeholder[k].at[3], RInt(p.bottom + 800)), RInt(0))

\* The clips of the returned box and the levels they sit at.
BoxClips == {boxRet[1].clips[k] : k \in 1..Len(boxRet[1].clips)}
ClipZs == {c.at[3] : c \in BoxClips}

\* C14: the vertical clip grid has floor((height - CLIP_HEIGHT)/40) + 1
\* levels, 40 mm apart from z = 0, in every column, and a clip is chamfered
\* if and only if its level is above the lowest one.
C14_ChamferAboveLowestLevel ==
  (boxRet # <<>>) =>
    /\ \A c \in BoxClips : c.chamfer <=> (c.at[3] > 0)
    /\ (BoxClips # {}) =>
         /\ Cardinality(ClipZs) = ((p.height - 12 * MM) \div (40 * MM)) + 1
         /\ \A z \in ClipZs : z >= 0 /\ z % (40 * MM) = 0
         /\ \A x \in ClipXs : \A z \in ClipZs :
              \A name \in {"clipR", "clipL"} :
                \E c \in BoxClips : c.clip = name /\ c.at[1] = x /\ c.at[3] = z

\* A box with several clip columns and several clip levels has been returned.
C14_Witness ==
  /\ boxRet # <<>>
  /\ Cardinality(ClipXs) >= 2
  /\ Cardinality(ClipZs) >= 3

\* The (horizontal, z) centres of a face's holes; axis 2 is y, axis 1 is x.
FaceCentres(holes, axis) ==
  {<<holes[k].at[axis], holes[k].at[3]>> : k \in 1..Len(holes)}
SeqPairs(A, B) == {<<A[a], B[b]>> : a \in 1..Len(A), b \in 1..Len(B)}

\* C15: the left and the right face each get |Y| x |Z| holes and the front
\* face |X| x |Z|, at the crossings of the solver outputs; left and right use
\* the same (y, z) centres; a face with an empty axis gets no holes.
C15_FaceGridsAreCrossProducts ==
  (vent # <<>>) =>
    LET v == vent[1]
        X == xPositionsFront(p.width)
        Y == yPositionsSide(p.depth)
        Z == zPositions(p.height)
    IN  /\ Len(v.left) = Len(Y) * Len(Z)
        /\ Len(v.right) = Len(Y) * Len(Z)
        /\ Len(v.front) = Len(X) * Len(Z)
        /\ FaceCentres(v.left, 2) = SeqPairs(Y, Z)
        /\ FaceCentres(v.right, 2) = SeqPairs(Y, Z)
        /\ FaceCentres(v.front, 1) = SeqPairs(X, Z)
        /\ \A k \in 1..Len(v.left) :
             v.left[k].at[2] = v.right[k].at[2] /\ v.left[k].at[3] = v.right[k].at[3]

\* Grids of several rows and columns on the sides and on the front.
C15_Witness ==
  /\ vent # <<>>
  /\ Len(yPositionsSide(p.depth)) >= 3
  /\ Len(zPositions(p.height)) >= 2
  /\ Len(xPositionsFront(p.width)) >= 2
  /\ Len(xPositionsFront(p.width)) # Len(zPositions(p.height))
  /\ Len(vent[1].left) >= 6

\* C17: the inner cavity has footprint (width - 2*wall, depth - 2*wall),
\* corner radius max(0, cornerRadius - wall) and spans z from bottom to
\* height; (76, 56) rounded by 4 from z = 3 to z = 52 for the box
\* 52 x 80 x 60, radius 6, wall 2, bottom 3.
C17_InnerCavity ==
  (res.shell # <<>>) =>
    LET c == res.shell[1].innerNeg
    IN  /\ c.size = <<p.width - 2 * p.wall, p.depth - 2 * p.wall>>
        /\ c.radius = (IF p.radius > p.wall THEN p.radius - p.wall ELSE 0)
        /\ c.z0 = p.bottom
        /\ c.z1 = p.height
        /\ (p = [height |-> 52 * MM, width |-> 80 * MM, depth |-> 60 * MM,
                 radius |-> 6 * MM, wall |-> 2 * MM, bottom |-> 3 * MM]) =>
             c = [size |-> <<76 * MM, 56 * MM>>, radius |-> 4 * MM,
                  z0 |-> 3 * MM, z1 |-> 52 * MM]

\* The shell of the 52 x 80 x 60 box has been built.
C17_Witness ==
  /\ res.shell # <<>>
  /\ p = [height |-> 52 * MM, width |-> 80 * MM, depth |-> 60 * MM,
          radius |-> 6 * MM, wall |-> 2 * MM, bottom |-> 3 * MM]

\* Where a translated wall prism starts and ends along its wall's normal.
PrismStart(h) == h.at[PrismAxis(h.prism)]
PrismEnd(h, wall) ==
  RAdd(h.at[PrismAxis(h.prism)],
       RInt(PrismSense(h.prism) * WallPrismLength(wall)))

\* C20: every left, right and front hole prism starts 1 mm outside the outer
\* surface of its wall (x = -width/2 - 1, x = width/2 + 1, y = depth/2 + 1)
\* and ends 2 mm inside the inner surface, for every wall thickness.
C20_PrismsPierceWall ==
  (vent # <<>>) =>
    LET v == vent[1]
    IN  /\ \A k \in 1..Len(v.left) :
             /\ REq(PrismStart(v.left[k]), R(0 - p.width - 2 * MM, 2))
             /\ REq(PrismEnd(v.left[k], p.wall),
                    R(0 - p.width + 2 * p.wall + 4 * MM, 2))
        /\ \A k \in 1..Len(v.right) :
             /\ REq(PrismStart(v.right[k]), R(p.width + 2 * MM, 2))
             /\ REq(PrismEnd(v.right[k], p.wall),
                    R(p.width - 2 * p.wall - 4 * MM, 2))
        /\ \A k \in 1..Len(v.front) :
             /\ REq(PrismStart(v.front[k]), R(p.depth + 2 * MM, 2))
             /\ REq(PrismEnd(v.front[k], p.wall),
                    R(p.depth - 2 * p.wall - 4 * MM, 2))

\* Holes on all three side faces of a box with the thicker wall.
C20_Witness ==
  /\ vent # <<>>
  /\ p.wall = 4 * MM
  /\ Len(vent[1].left) > 0
  /\ Len(vent[1].right) > 0
  /\ Len(vent[1].front) > 0

\* A frame runs with a reload needed, more than 100 ms after the start of the
\* latest pass, which has failed.
C18_FrameAfterFailure ==
  /\ frames' = frames + 1
  /\ nPasses > 0
  /\ passes[nPasses].state = "failed"
  /\ modelLoadStarted # Undefined
  /\ reloadModelNeeded \/ animCur' # animCur
  /\ now' - modelLoadStarted > 100

\* C18: a generation pass that fails installs no new model: the displayed
\* geometry is always that of the last successful pass (the initial one if
\* there is none); and a failed pass does not prevent a later pass from being
\* started: the next frame that needs a reload more than 100 ms after the
\* failed pass began starts a new pass.
C18_FailedPassKeepsModel ==
  /\ [](/\ meshGeometry = lastOk
        /\ meshGeometry # 0 => passes[meshGeometry].state = "ok")
  /\ [][C18_FrameAfterFailure =>
          (nPasses' = nPasses + 1 /\ passes'[nPasses'].state = "flight")]_vars

\* A pass succeeded, a later pass failed leaving the first one's geometry on
\* display, and a third pass was started after that failure.
C18_Witness ==
  \E i, j, k \in PassIds :
    /\ i < j /\ j < k
    /\ passes[i].state = "ok"
    /\ passes[j].state = "failed"
    /\ passes[k].state = "flight"
    /\ passes[i].endFrame < passes[j].startFrame
    /\ passes[j].endFrame < passes[k].startFrame
    /\ meshGeometry = i

\* C22: computeVerticalPositions with height - 2E >= F: every returned z
\* centre lies in [E + F/2, height - E - F/2], the first centre is E + F/2,
\* and with two or more centres the last one is height - E - F/2.
C22_VerticalWithinHeight ==
  (sPc = "vertical" /\ sIn.S - 2 * sIn.E >= sIn.F) =>
    LET n == Len(sOut.positions)
        lo == R(2 * sIn.E + sIn.F, 2)
        hi == R(2 * sIn.S - 2 * sIn.E - sIn.F, 2)
    IN  /\ n >= 1
        /\ \A i \in 1..n : RLe(lo, sOut.positions[i]) /\ RLe(sOut.positions[i], hi)
        /\ REq(sOut.positions[1], lo)
        /\ (n >= 2) => REq(sOut.positions[n], hi)

\* The vertical solver returned three or more centres with a clearance, the
\* slack spread over the gaps.
C22_Witness ==
  /\ sPc = "vertical"
  /\ sIn.E > 0
  /\ Len(sOut.positions) >= 3
  /\ RLt(RInt(sIn.G), sOut.gapBetween)

\* C23: in box(), when W = width - 2*radius - 10 and H = height - CLIP_HEIGHT
\* are both non-negative, every clip's x offset lies within [-W/2, W/2] and
\* every clip's z offset plus CLIP_HEIGHT is at most height.
C23_ClipsWithinFace ==
  LET W == p.width - 2 * p.radius - 2 * padding
      H == p.height - CLIP_HEIGHT
  IN  (W >= 0 /\ H >= 0) =>
        \A k \in 1..Len(res.clips) :
          /\ 0 - W <= 2 * res.clips[k].at[1]
          /\ 2 * res.clips[k].at[1] <= W
          /\ res.clips[k].at[3] >= 0
          /\ res.clips[k].at[3] + CLIP_HEIGHT <= p.height

\* box() returned a grid of several columns and several levels.
C23_Witness ==
  /\ pc = "done"
  /\ p.width - 2 * p.radius - 2 * padding >= 0
  /\ \E k \in 1..Len(res.clips) :
       res.clips[k].at[1] < 0 /\ res.clips[k].at[3] >= 2 * gh
  /\ \E k \in 1..Len(res.clips) : res.clips[k].at[1] > 0

\* C24: for every BoxParameters within the interface bounds, the interface
\* minimums width = 20, height = 20 with cornerRadius = 6 included, box()
\* places at least one clip pair: the column count and the level count are
\* both at least 1.
C24_AtLeastOneClipPair ==
  (/\ pc = "done"
   /\ p.width >= MIN_WIDTH /\ p.height >= MIN_HEIGHT /\ p.depth >= MIN_DEPTH) =>
    /\ ClipColumns(p.width, p.radius) >= 1
    /\ ClipLevels(p.height) >= 1
    /\ Len(boxRet[1].clips) >= 2

\* C27: whenever createVentHoles builds the bottom cutout, the cutout is
\* strictly wider than the central rib, so the cutout minus the rib is not
\* empty.
C27_CutoutWiderThanRib ==
  (vent # <<>>) =>
    \A k \in 1..Len(vent[1].bottom) :
      /\ vent[1].bottom[k].size[1] > vent[1].bottom[k].rib.size[1]
      /\ ~ BottomOpeningEmpty(vent[1].bottom[k])

\* The roundedRectangle calls of one pass: the outer profile and the inner
\* cavity of base(), the bottom cutout of createVentHoles.
RoundedRectangleCalls ==
  (IF res.shell # <<>>
     THEN {[size |-> res.shell[1].outer.size, radius |-> res.shell[1].outer.radius],
           [size |-> res.shell[1].innerNeg.size,
            radius |-> res.shell[1].innerNeg.radius]}
     ELSE {})
  \cup
  (IF vent # <<>>
     THEN {[size |-> vent[1].bottom[k].size, radius |-> vent[1].bottom[k].radius] :
             k \in 1..Len(vent[1].bottom)}
     ELSE {})

\* C29: if 0 <= cornerRadius <= min(width, depth)/2 and
\* wallThickness < min(width, depth)/2, every roundedRectangle call of base()
\* and createVentHoles gets a radius r with 0 <= r <= min(its width, its
\* height)/2.
C29_RadiusWithinHalfExtent ==
  LET m == IF p.width <= p.depth THEN p.width ELSE p.depth
  IN  (0 <= p.radius /\ 2 * p.radius <= m /\ 2 * p.wall < m) =>
        \A c \in RoundedRectangleCalls :
          /\ 0 <= c.radius
          /\ 2 * c.radius <= c.size[1]
          /\ 2 * c.radius <= c.size[2]

\* A pass made all three calls, the corner radius being exactly half the
\* smaller side and the bottom cutout's radius exactly half its side.
C29_Witness ==
  /\ pc = "done"
  /\ vent # <<>>
  /\ 2 * p.radius = (IF p.width <= p.depth THEN p.width ELSE p.depth)
  /\ Cardinality(RoundedRectangleCalls) = 3
  /\ \E k \in 1..Len(vent[1].bottom) :
       /\ vent[1].bottom[k].radius > 0
       /\ 2 * vent[1].bottom[k].radius = vent[1].bottom[k].size[1]

\* C28: with the shipped constants, for every dimension within the interface
\* bounds 20..256 mm each axis gets at most 12 positions, so a face laid out
\* over two axes gets at most 144 holes and the three side faces at most 432.
C28_AtMostTwelvePerAxis ==
  (sPc \in {"centered", "vertical"}) =>
    LET n == Len(sOut.positions)
    IN  /\ n <= MAX_AXIS_COUNT_WIDTH
        /\ n * n <= 144
        /\ 3 * n * n <= 432

\* A solver ran on a span for which the minimum gap would give more than 12
\* positions, and returned exactly 12.
C28_Witness ==
  /\ sPc \in {"centered", "vertical"}
  /\ sIn.S = MAX_WIDTH
  /\ CountAtGap(sIn.S - 2 * sIn.E, sIn.F, sIn.G) > 12
  /\ Len(sOut.positions) = 12

InFlight == {i \in PassIds : passes[i].state = "flight"}

\* C21: a frame starts a new generation pass only if a reload is needed and
\* either no pass is in flight or the most recently started pass began more
\* than 100 ms before; the completion of an older pass does not let a pass
\* start while a newer pass that began less than 100 ms ago is in flight.
C21_StartOnlyWhenIdleOrStuck ==
  [][(nPasses' = nPasses + 1) =>
       /\ (reloadModelNeeded \/ animCur' # animCur)
       /\ \/ InFlight = {}
          \/ (nPasses > 0 /\ now' - passes[nPasses].started > 100)]_vars

\* C26: the result of an older pass never replaces the displayed geometry of
\* a pass that was started later: every pass that has completed successfully
\* was started no later than the pass on display.
C26_OlderNeverReplacesNewer ==
  \A j \in PassIds : (passes[j].state = "ok") => (j <= meshGeometry)

\* ----------------------------------------------------------- specifications

GetNext ==
  \/ \E c \in Callers : GetCall(c) /\ UNCHANGED <<solverVars, passVars, loopVars>>
  \/ \E c \in Callers : InitResolve(c) /\ UNCHANGED <<solverVars, passVars, loopVars>>
  \/ \E c \in Callers : SetupResolve(c) /\ UNCHANGED <<solverVars, passVars, loopVars>>
  \/ \E c \in Callers : GetAgain(c) /\ UNCHANGED <<solverVars, passVars, loopVars>>

InitGet == GetIdle /\ SolverIdle /\ PassIdle /\ LoopInit

SpecGet == InitGet /\ [][GetNext]_vars

SolverNext ==
  \/ SolveCentered /\ UNCHANGED <<getVars, passVars, loopVars>>
  \/ SolveVertical /\ UNCHANGED <<getVars, passVars, loopVars>>

InitSolver == SolverInit /\ GetIdle /\ PassIdle /\ LoopInit

SpecSolver == InitSolver /\ [][SolverNext]_vars

InitShipped == ShippedInit /\ GetIdle /\ PassIdle /\ LoopInit

SpecShipped == InitShipped /\ [][SolverNext]_vars

PassNext ==
  \/ BaseShell /\ UNCHANGED <<getVars, solverVars, loopVars>>
  \/ ShellThrows /\ UNCHANGED <<getVars, solverVars, loopVars>>
  \/ VentStep /\ UNCHANGED <<getVars, solverVars, loopVars>>
  \/ ClipPair /\ UNCHANGED <<getVars, solverVars, loopVars>>
  \/ ClipThrows /\ UNCHANGED <<getVars, solverVars, loopVars>>
  \/ BoxReturn /\ UNCHANGED <<getVars, solverVars, loopVars>>

Init == PassInit /\ GetIdle /\ SolverIdle /\ LoopInit

Spec == Init /\ [][PassNext]_vars

LoopNext ==
  \/ \E dt \in FrameSteps : \E updated \in BOOLEAN :
       Frame(dt, updated) /\ UNCHANGED <<getVars, solverVars, passVars>>
  \/ \E id \in PassIds : PassSucceeds(id) /\ UNCHANGED <<getVars, solverVars, passVars>>
  \/ \E id \in PassIds : PassFails(id) /\ UNCHANGED <<getVars, solverVars, passVars>>

InitLoop == LoopInit /\ GetIdle /\ SolverIdle /\ PassIdle

SpecLoop == InitLoop /\ [][LoopNext]_vars

====
